---- MODULE Spec2Model ----
(***************************************************************************)
(* A model of dca2csv.py: the FieldType and CoreFileType constructors and   *)
(* the writecsv conversion of a Darwin Core Archive core table into one     *)
(* CSV file.                                                                *)
(*                                                                          *)
(* Python strings are sequences of one-character strings, so "a/b" is       *)
(* <<"a", "/", "b">> and '' is <<>>.  Python's None is the value None       *)
(* below, which is no string.                                               *)
(***************************************************************************)
EXTENDS Integers, Sequences, FiniteSets, TLC

VARIABLES
    pc,          \* position of the run of writecsv
    ignoreAttr,  \* metafile: the core element's ignoreHeaderLines attribute
    fieldAttrs,  \* metafile: the field elements, in document order
    files,       \* metafile and disk: the location elements' files, in document order
    core,        \* the CoreFileType built at line 186, or None
    dest,        \* the records written to the destination so far
    destHandle,  \* the destination file object: "unopened", "open" or "closed"
    loc,         \* index of the location being read (0 before the loop)
    pos,         \* records of the current location consumed by the reader
    rawTerm,     \* FieldType scenario: the term handed to the constructor
    ft           \* FieldType scenario: the constructed object, or None

vars == <<pc, ignoreAttr, fieldAttrs, files, core, dest, destHandle, loc, pos,
          rawTerm, ft>>

None == <<"None">>

-----------------------------------------------------------------------------
(* Bounds of the model.                                                     *)

MaxFields == 2   \* field elements in the descriptor
MaxInput  == 4   \* location elements plus source records, over all locations
MaxTail   == 4   \* characters of a term after its prefix

-----------------------------------------------------------------------------
(* Strings.                                                                 *)

SeqsUpTo(S, n) == UNION {[1..k -> S] : k \in 0..n}

Min(S) == CHOOSE x \in S : \A y \in S : x <= y
Max(S) == CHOOSE x \in S : \A y \in S : x >= y

\* s[from:] and s[:upto] of Python, on 1-based sequences.
DropFirst(s, n) == SubSeq(s, n + 1, Len(s))
TakeFirst(s, n) == SubSeq(s, 1, n)

\* Indices of s that hold one of the characters cs.
Occurrences(s, cs) == {i \in 1..Len(s) : s[i] \in cs}

\* s.split(c, 1)[0]: s up to its first character among cs, all of s if none.
Before(s, cs) ==
    IF Occurrences(s, cs) = {} THEN s ELSE TakeFirst(s, Min(Occurrences(s, cs)) - 1)

\* s.split('/')[-1]
LastSplit(s) ==
    IF Occurrences(s, {"/"}) = {} THEN s ELSE DropFirst(s, Max(Occurrences(s, {"/"})))

StartsWith(s, p) == Len(s) >= Len(p) /\ TakeFirst(s, Len(p)) = p

Digits == <<"0", "1", "2", "3", "4", "5", "6", "7", "8", "9">>

DigitValue(c) == (CHOOSE i \in 1..10 : Digits[i] = c) - 1

IsInteger(s) == Len(s) > 0 /\ \A i \in 1..Len(s) : \E d \in 1..10 : Digits[d] = s[i]

RECURSIVE IntOf(_)
\* int(s) for a string of decimal digits.
IntOf(s) ==
    IF Len(s) = 0 THEN 0
    ELSE 10 * IntOf(TakeFirst(s, Len(s) - 1)) + DigitValue(s[Len(s)])

-----------------------------------------------------------------------------
(* urlparse(term).path, for a term without scheme or with the http scheme.  *)

HttpScheme == <<"h", "t", "t", "p", ":">>

\* urlsplit: the scheme is split off at the first ':'.
SplitScheme(url) == IF StartsWith(url, HttpScheme) THEN DropFirst(url, 5) ELSE url

\* _splitnetloc: after '//', the authority runs to the first of '/', '?', '#'.
SplitNetloc(url) ==
    IF StartsWith(url, <<"/", "/">>)
    THEN LET delims == {i \in Occurrences(url, {"/", "?", "#"}) : i > 2}
         IN  IF delims = {} THEN <<>> ELSE DropFirst(url, Min(delims) - 1)
    ELSE url

\* urlsplit: url.split('#', 1)[0]
SplitFragment(url) == Before(url, {"#"})

\* urlsplit: url.split('?', 1)[0]
SplitQuery(url) == Before(url, {"?"})

\* _splitparams: the parameters start at the first ';' of the last segment.
SplitParams(url) ==
    LET slashes == Occurrences(url, {"/"})
        from    == IF slashes = {} THEN 0 ELSE Max(slashes)
        semis   == {i \in Occurrences(url, {";"}) : i > from}
    IN  IF semis = {} THEN url ELSE TakeFirst(url, Min(semis) - 1)

UrlPath(term) == SplitParams(SplitQuery(SplitFragment(SplitNetloc(SplitScheme(term)))))

-----------------------------------------------------------------------------
(* FieldType.__init__                                                       *)
(* An optional integer is <<>> (None) or <<n>>.                             *)

\* x.getAttribute(name) or None
OrNone(attr) == IF attr = <<>> THEN None ELSE attr

FieldTermNoUrlparse(term) == LastSplit(term)
FieldTerm(term) == LastSplit(UrlPath(term))

FieldIndex(index) == IF index = <<>> \/ index = None THEN <<>> ELSE <<IntOf(index)>>

\* The constructor raises for a term of None (urlparse) and for an index
\* that int() rejects.
FieldTypeRaises(term, index) ==
    \/ term = None
    \/ index # <<>> /\ index # None /\ ~IsInteger(index)

FieldType(term, index, default) ==
    [term |-> FieldTerm(term), index |-> FieldIndex(index), default |-> default]

\* FieldType.__cmp__ compares the index attributes; Python 2 orders None
\* before every integer.
IndexKey(f) == IF f.index = <<>> THEN -1 ELSE f.index[1]
Cmp(f, g) == IF IndexKey(f) > IndexKey(g) THEN 1
             ELSE IF IndexKey(f) < IndexKey(g) THEN -1 ELSE 0

-----------------------------------------------------------------------------
(* CoreFileType.__init__                                                    *)

\* int(core.getAttribute('ignoreHeaderLines')) raises ValueError.
IgnoreRaisesUnlessMissing(attr) == attr # <<>> /\ ~IsInteger(attr)
IgnoreRaises(attr) == ~IsInteger(attr)

\* list.sort(): stable, ascending under __cmp__.
InsertField(sorted, f) ==
    LET after == {i \in 1..Len(sorted) : Cmp(sorted[i], f) <= 0}
        k     == IF after = {} THEN 0 ELSE Max(after)
    IN  TakeFirst(sorted, k) \o <<f>> \o DropFirst(sorted, k)

RECURSIVE SortedPrefix(_, _)
SortedPrefix(fs, n) ==
    IF n = 0 THEN <<>> ELSE InsertField(SortedPrefix(fs, n - 1), fs[n])

SortFieldsUnsorted(fs) == fs
SortFields(fs) == SortedPrefix(fs, Len(fs))

\* [x for x in fields if x.index is not None] for wanted = TRUE, and
\* [x for x in fields if x.index is None] for wanted = FALSE: the fields
\* kept are in document order.
FieldsByIndex(fs, wanted) ==
    LET kept == {i \in 1..Len(fs) : (fs[i].index # <<>>) = wanted}
        Nth[n \in 0..Len(fs)] == IF n = 0 THEN 0
                                 ELSE Min({i \in kept : i > Nth[n - 1]})
    IN  [n \in 1..Cardinality(kept) |-> fs[Nth[n]]]

\* The location elements in document order; location k names files[k].
LocationsReversed(fs) == [k \in 1..Len(fs) |-> Len(fs) + 1 - k]
Locations(fs) == [k \in 1..Len(fs) |-> k]

CoreRaises(ignore, attrs) ==
    \/ IgnoreRaises(ignore)
    \/ \E i \in 1..Len(attrs) :
           FieldTypeRaises(OrNone(attrs[i].term), OrNone(attrs[i].index))

CoreFileType(ignore, attrs, fs) ==
    LET fields == [i \in 1..Len(attrs) |->
                      FieldType(OrNone(attrs[i].term), OrNone(attrs[i].index),
                                OrNone(attrs[i].default))]
    IN  [ignoreHeaderLines |-> IntOf(ignore),
         locations         |-> Locations(fs),
         fields            |-> SortFields(FieldsByIndex(fields, TRUE)),
         defaults          |-> SortFields(FieldsByIndex(fields, FALSE))]

-----------------------------------------------------------------------------
(* csv.DictReader and csv.DictWriter, at the level of parsed records: a     *)
(* source file is the sequence of rows csv.reader yields, a blank line      *)
(* being the row <<>>.                                                      *)

Terms(fs) == [i \in 1..Len(fs) |-> fs[i].term]

\* fieldnames of lines 189-191
Fieldnames(c) == Terms(c.fields) \o Terms(c.defaults)

\* Index of the record the next reader.next() of DictReader.next() returns:
\* blank rows are passed over.  0 at the end of the file (StopIteration).
NextRecordKeepBlank(file, p) == IF p < Len(file) THEN p + 1 ELSE 0
NextRecord(file, p) ==
    LET nonblank == {i \in (p + 1)..Len(file) : file[i] # <<>>}
    IN  IF nonblank = {} THEN 0 ELSE Min(nonblank)

\* DictReader.next(): dict(zip(fieldnames, row)), the surplus cells under
\* the restkey None, the missing fieldnames set to the restval None.
DictOfRow(fieldnames, row) ==
    LET lf   == Len(fieldnames)
        lr   == Len(row)
        keys == {fieldnames[i] : i \in 1..lf} \cup (IF lf < lr THEN {None} ELSE {})
    IN  [k \in keys |->
            IF k = None THEN DropFirst(row, lf)
            ELSE IF \E i \in (lr + 1)..lf : fieldnames[i] = k THEN None
            ELSE row[Max({i \in 1..Min({lf, lr}) : fieldnames[i] = k})]]

\* Lines 213-214: n calls of dr.next().  -1 when one raises StopIteration.
RECURSIVE SkipRecords(_, _, _)
SkipRecords(file, p, n) ==
    IF n <= 0 THEN p
    ELSE IF NextRecord(file, p) = 0 THEN -1
    ELSE SkipRecords(file, NextRecord(file, p), n - 1)

\* Lines 219-220: later assignments to one key replace earlier ones.
ApplyDefaultsSkipped(row, defaults) == row
ApplyDefaults(row, defaults) ==
    [k \in DOMAIN row |->
        IF \E i \in 1..Len(defaults) : defaults[i].term = k
        THEN defaults[Max({i \in 1..Len(defaults) : defaults[i].term = k})].default
        ELSE row[k]]

\* DictWriter._dict_to_list with extrasaction='raise': ValueError for a key
\* that is no fieldname.
WriteRaisesNever(fieldnames, row) == FALSE
WriteRaises(fieldnames, row) ==
    \E k \in DOMAIN row : \A i \in 1..Len(fieldnames) : fieldnames[i] # k

\* The csv writer writes None as the empty string.
Written(v) == IF v = None THEN <<>> ELSE v

\* [rowdict.get(key, '') for key in fieldnames], as the writer writes it.
DictToList(fieldnames, row) ==
    [i \in 1..Len(fieldnames) |->
        IF fieldnames[i] \in DOMAIN row THEN Written(row[fieldnames[i]]) ELSE <<>>]

\* The header's rowdict of line 195.
HeaderDict(fieldnames) ==
    [k \in {fieldnames[i] : i \in 1..Len(fieldnames)} |-> k]

-----------------------------------------------------------------------------
(* The inputs of a run: the metafile and the files its locations name.      *)

IgnoreAttrs == {<<>>, <<"x">>, <<"0">>, <<"1">>}

TermAttrs == {<<"a">>, <<"u", "/", "b">>}
IndexAttrs == {<<>>, <<"0">>, <<"1">>}
DefaultAttrs == {<<>>, <<"d">>}

\* The field elements; one with an index carries no default attribute,
\* which writecsv would not read.
FieldElements ==
    {e \in [term : TermAttrs, index : IndexAttrs, default : DefaultAttrs] :
        e.index = <<>> \/ e.default = <<>>}

\* The numbers of cells of a source record; 0 is a blank line.
Widths == {0, 1, 2}

\* Every cell of the source files holds a value of its own, so that a
\* written value tells the cell it was read from.
Cell(l, r, c) == <<Digits[l + 1], Digits[r + 1], Digits[c + 1]>>

\* The files of a sequence of locations, given the widths of their records.
Content(shape) ==
    [l \in 1..Len(shape) |->
        [r \in 1..Len(shape[l]) |->
            [c \in 1..shape[l][r] |-> Cell(l, r, c)]]]

RECURSIVE Shapes(_)
\* The sequences of locations that take at most n location elements and
\* records together.
Shapes(n) ==
    {<<>>} \cup
    UNION {{<<f>> \o rest : rest \in Shapes(n - 1 - Len(f))} :
              f \in SeqsUpTo(Widths, n - 1)}

-----------------------------------------------------------------------------
(* writecsv                                                                 *)

\* The file of the location the loop is at.
CurrentFile == files[core[1].locations[loc]]

\* What becomes of the destination file object when writecsv is left: the
\* code never closes it, and whether the interpreter has finalised the
\* object by then depends on the interpreter and on who holds the frame.
Left(handle) == IF handle = "open" THEN {"open", "closed"} ELSE {handle}

Init ==
    /\ pc = "Idle"
    /\ ignoreAttr \in IgnoreAttrs
    /\ fieldAttrs \in SeqsUpTo(FieldElements, MaxFields)
    /\ files \in {Content(shape) : shape \in Shapes(MaxInput)}
    /\ core = <<>>
    /\ dest = <<>>
    /\ destHandle = "unopened"
    /\ loc = 0
    /\ pos = 0
    /\ rawTerm = <<>>
    /\ ft = <<>>

\* Line 186: the metafile is parsed.
Parse ==
    /\ pc = "Idle"
    /\ IF CoreRaises(ignoreAttr, fieldAttrs)
       THEN pc' = "Aborted" /\ core' = core
       ELSE pc' = "Parsed" /\ core' = <<CoreFileType(ignoreAttr, fieldAttrs, files)>>
    /\ UNCHANGED <<ignoreAttr, fieldAttrs, files, dest, destHandle, loc, pos, rawTerm, ft>>

\* Lines 188-195: the destination is opened and the header written.
WriteHeader ==
    /\ pc = "Parsed"
    /\ destHandle' = "open"
    /\ dest' = <<[kind  |-> "header",
                  cells |-> DictToList(Fieldnames(core[1]),
                                       HeaderDict(Fieldnames(core[1]))),
                  loc   |-> 0,
                  rec   |-> 0]>>
    /\ pc' = "Locations"
    /\ UNCHANGED <<ignoreAttr, fieldAttrs, files, core, loc, pos, rawTerm, ft>>

\* Lines 203-214: the next location is opened and its header lines skipped.
OpenLocation ==
    /\ pc = "Locations"
    /\ loc < Len(core[1].locations)
    /\ loc' = loc + 1
    /\ LET file == files[core[1].locations[loc + 1]]
           p    == SkipRecords(file, 0, core[1].ignoreHeaderLines)
       IN  IF p = -1
           THEN pc' = "Aborted" /\ pos' = Len(file) /\ destHandle' \in Left(destHandle)
           ELSE pc' = "Rows" /\ pos' = p /\ destHandle' = destHandle
    /\ UNCHANGED <<ignoreAttr, fieldAttrs, files, core, dest, rawTerm, ft>>

\* Line 204: open(location) raises IOError.
OpenLocationFails ==
    /\ pc = "Locations"
    /\ loc < Len(core[1].locations)
    /\ loc' = loc + 1
    /\ pc' = "Aborted"
    /\ destHandle' \in Left(destHandle)
    /\ UNCHANGED <<ignoreAttr, fieldAttrs, files, core, dest, pos, rawTerm, ft>>

\* Lines 216-223: one pass of the loop over the reader.
ConvertRow ==
    /\ pc = "Rows"
    /\ LET r          == NextRecord(CurrentFile, pos)
           fieldnames == Fieldnames(core[1])
           row        == ApplyDefaults(DictOfRow(fieldnames, CurrentFile[r]),
                                       core[1].defaults)
       IN  IF r = 0
           THEN /\ pc' = "Locations"
                /\ pos' = Len(CurrentFile)
                /\ UNCHANGED <<dest, destHandle>>
           ELSE /\ pos' = r
                /\ IF WriteRaises(fieldnames, row)
                   THEN /\ pc' = "Aborted"
                        /\ dest' = dest
                        /\ destHandle' \in Left(destHandle)
                   ELSE /\ pc' = "Rows"
                        /\ dest' = Append(dest,
                                     [kind  |-> "data",
                                      cells |-> DictToList(fieldnames, row),
                                      loc   |-> core[1].locations[loc],
                                      rec   |-> r])
                        /\ destHandle' = destHandle
    /\ UNCHANGED <<ignoreAttr, fieldAttrs, files, core, loc, rawTerm, ft>>

\* The loop over the locations is exhausted and writecsv returns.
Return ==
    /\ pc = "Locations"
    /\ loc = Len(core[1].locations)
    /\ pc' = "Done"
    /\ destHandle' \in Left(destHandle)
    /\ UNCHANGED <<ignoreAttr, fieldAttrs, files, core, dest, loc, pos, rawTerm, ft>>

Next == Parse \/ WriteHeader \/ OpenLocation \/ OpenLocationFails \/ ConvertRow \/ Return

Spec == Init /\ [][Next]_vars

-----------------------------------------------------------------------------
(* The FieldType constructor on its own, for terms of every shape.          *)

TermPrefixes == {<<>>, HttpScheme, HttpScheme \o <<"/", "/", "h">>}
TermChars == {"a", "/", "#", "?", ";"}

InitTerm ==
    /\ pc = "Idle"
    /\ ignoreAttr = <<>>
    /\ fieldAttrs = <<>>
    /\ files = <<>>
    /\ core = <<>>
    /\ dest = <<>>
    /\ destHandle = "unopened"
    /\ loc = 0
    /\ pos = 0
    /\ rawTerm \in {p \o t : p \in TermPrefixes, t \in SeqsUpTo(TermChars, MaxTail)}
    /\ ft = <<>>

\* FieldType(term)
NewFieldType ==
    /\ ft = <<>>
    /\ ~FieldTypeRaises(rawTerm, None)
    /\ ft' = <<FieldType(rawTerm, None, None)>>
    /\ UNCHANGED <<pc, ignoreAttr, fieldAttrs, files, core, dest, destHandle, loc, pos,
                   rawTerm>>

NextTerm == NewFieldType

SpecTerm == InitTerm /\ [][NextTerm]_vars

-----------------------------------------------------------------------------
(* What the descriptor declares, read off the metafile itself: the terms    *)
(* in which the properties below are stated.                                *)

\* Document positions of the field elements with and without an index.
Positional == {i \in 1..Len(fieldAttrs) : fieldAttrs[i].index # <<>>}
Defaulted  == {i \in 1..Len(fieldAttrs) : fieldAttrs[i].index = <<>>}

\* The declared position of a positional field element.
Position(i) == CHOOSE n \in 0..9 : fieldAttrs[i].index = <<Digits[n + 1]>>

\* The final '/'-separated segment of a string.
FinalSegment(t) ==
    LET k == CHOOSE k \in 0..Len(t) :
                 /\ k > 0 => t[k] = "/"
                 /\ \A j \in (k + 1)..Len(t) : t[j] # "/"
    IN  DropFirst(t, k)

DeclaredName(i) == FinalSegment(fieldAttrs[i].term)

\* The output column of a field element: positional fields by ascending
\* position (document order among equals), then default fields in document
\* order.
Column(i) ==
    IF i \in Positional
    THEN 1 + Cardinality({j \in Positional :
                 \/ Position(j) < Position(i)
                 \/ Position(j) = Position(i) /\ j < i})
    ELSE Cardinality(Positional) + Cardinality({j \in Defaulted : j <= i})

\* ignoreHeaderLines, when the attribute is a decimal digit.
IgnoreDeclared == \E n \in 0..9 : ignoreAttr = <<Digits[n + 1]>>
DeclaredSkip == CHOOSE n \in 0..9 : ignoreAttr = <<Digits[n + 1]>>

DataRecords == {k \in 1..Len(dest) : dest[k].kind = "data"}

\* The source record an output record was produced from.
SourceOf(d) == files[d.loc][d.rec]

NonBlank(file) == {r \in 1..Len(file) : file[r] # <<>>}

\* s[1] + ... + s[Len(s)]
Sum(s) ==
    LET S[k \in 0..Len(s)] == IF k = 0 THEN 0 ELSE S[k - 1] + s[k]
    IN  S[Len(s)]

Terminal == pc \in {"Done", "Aborted"}

-----------------------------------------------------------------------------
(* Properties.                                                              *)

\* C1: whenever anything has been written, the first record is the header,
\* the header holds the positional-field names in ascending position order
\* followed by the default-field names in document order, and every later
\* record is a data record.
C1_HeaderFirstAndOnce ==
    dest # <<>> =>
        /\ dest[1].kind = "header"
        /\ Len(dest[1].cells) = Len(fieldAttrs)
        /\ \A i \in 1..Len(fieldAttrs) : dest[1].cells[Column(i)] = DeclaredName(i)
        /\ \A k \in 2..Len(dest) : dest[k].kind = "data"

\* C1 witness: a finished run over two locations that wrote data under two
\* positional fields declared in descending position order.
C1_Witness ==
    /\ pc = "Done"
    /\ Len(files) = 2
    /\ DataRecords # {}
    /\ \E i, j \in Positional : i < j /\ Position(i) > Position(j)

\* C2 (as claimed): in every data record, the column of a positional field
\* declared at position p holds column p (0-based) of the source record,
\* when the source record has that column, the declared positions are
\* distinct and no default field shares the field's name.
C2_PositionalColumnIsDeclaredPosition ==
    \A k \in DataRecords : \A i \in Positional :
        (/\ \A j, m \in Positional : j # m => Position(j) # Position(m)
         /\ \A j \in Defaulted : DeclaredName(j) # DeclaredName(i)
         /\ Position(i) + 1 <= Len(SourceOf(dest[k])))
        => dest[k].cells[Column(i)] = SourceOf(dest[k])[Position(i) + 1]

\* C3 (as claimed): in every data record, the column of each default field
\* holds that field's configured default value.
C3_DefaultColumnIsOwnDefault ==
    \A k \in DataRecords : \A i \in Defaulted :
        dest[k].cells[Column(i)] = fieldAttrs[i].default

\* The last default field element declared with the name of element i.
LastNamesake(i) == CHOOSE j \in Defaulted :
    /\ DeclaredName(j) = DeclaredName(i)
    /\ \A m \in Defaulted : DeclaredName(m) = DeclaredName(i) => m <= j

\* C3 (amended): in every data record, the column of each default field
\* holds the configured default value of the last default field declared
\* with the same name: its own default value when no later default field
\* shares its name.
C3_DefaultColumnIsLastNamesakeDefault ==
    \A i \in Defaulted :
        LET column == Column(i)
            value  == fieldAttrs[LastNamesake(i)].default
        IN  \A k \in DataRecords : dest[k].cells[column] = value

\* C3 witness: a data record written under a default field with a
\* configured value, from a source record that has more columns than there
\* are positional fields.
C3_Witness ==
    \E k \in DataRecords :
        /\ Len(SourceOf(dest[k])) > Cardinality(Positional)
        /\ \E i \in Defaulted : fieldAttrs[i].default # <<>>

\* C4 (as claimed): every data record comes from a record after the first
\* N of its file, and the first data record written for a location comes
\* from record N + 1 (when that record is not itself a blank line).
C4_FirstDataRecordIsRecordNPlus1 ==
    \A k \in DataRecords :
        /\ dest[k].rec > DeclaredSkip
        /\ (/\ \A m \in DataRecords : m < k => dest[m].loc # dest[k].loc
            /\ files[dest[k].loc][DeclaredSkip + 1] # <<>>)
               => dest[k].rec = DeclaredSkip + 1

RecordsAfterSkip(l) == Len(files[l]) - DeclaredSkip
NonBlankAfterSkip(l) == Cardinality(NonBlank(files[l])) - DeclaredSkip

C6_LocationOrderKept ==
    \A k, m \in DataRecords :
        k < m => \/ dest[k].loc < dest[m].loc
                 \/ dest[k].loc = dest[m].loc /\ dest[k].rec < dest[m].rec

\* C6 witness: the destination holds data records of two locations.
C6_Witness ==
    \E k, m \in DataRecords : dest[k].loc # dest[m].loc

\* C7: with ignoreHeaderLines missing or not an integer, the run never
\* leaves parsing except aborted: the destination is never opened, no
\* location is opened and nothing is written.
C7_BadSkipCountAbortsBeforeOutput ==
    ~IgnoreDeclared =>
        /\ pc \in {"Idle", "Aborted"}
        /\ destHandle = "unopened"
        /\ dest = <<>>
        /\ loc = 0

\* C7 witness: a run aborted on a descriptor without the attribute that
\* names a location.
C7_Witness ==
    /\ pc = "Aborted"
    /\ ignoreAttr = <<>>
    /\ Len(files) > 0

\* C8 (as claimed): in every terminal state the destination file, once
\* opened, is closed.
C8_DestinationClosedAtExit ==
    Terminal /\ destHandle # "unopened" => destHandle = "closed"

-----------------------------------------------------------------------------
(* Properties of the FieldType constructor.                                 *)

\* s up to its first character among cs.
Upto(s, cs) ==
    CHOOSE p \in {TakeFirst(s, k) : k \in 0..Len(s)} :
        /\ \A j \in 1..Len(p) : p[j] \notin cs
        /\ Len(p) < Len(s) => s[Len(p) + 1] \in cs

\* A URI without its scheme and without its authority.
Unschemed(t) == IF \E s \in {DropFirst(t, 5)} : HttpScheme \o s = t
                THEN DropFirst(t, 5) ELSE t
Unhosted(t) == IF Len(t) >= 2 /\ t[1] = "/" /\ t[2] = "/"
               THEN DropFirst(t, 2 + Len(Upto(DropFirst(t, 2), {"/"})))
               ELSE t

====
